---- MODULE Spec2Model ----
(***************************************************************************)
(* featureservice (index.js): the page queue of a FeatureService, the      *)
(* retry logic of _requestFeatures/_catchErrors/_abortPaging, and the page *)
(* planner pages() with its three page builders.                           *)
(***************************************************************************)
EXTENDS Integers, Sequences, FiniteSets, TLC

\* ------------------------------------------------------------------ bounds
\* number of tasks the caller pushes to the pageQueue
MaxTasks == 2
\* feature counts 0..MaxCount (and the counts around the page size limit)
MaxCount == 3
\* object ids 0..MaxId
MaxId == 3
\* page sizes 1..MaxSize of the direct calls of the page builders
MaxSize == 3

\* ------------------------------------------------------- program constants
\* index.js:470  task.retry === 3
RetryLimit == 3
\* index.js:36   ? 16 : 4
ServiceConcurrency == 16
DefaultConcurrency == 4

Tasks == 1..MaxTasks

\* ------------------------------------------------------------ JS values
\* a JavaScript value: a number, a string (a sequence of characters),
\* undefined or NaN
Num(n) == [t |-> "num", v |-> n]
Str(c) == [t |-> "str", v |-> c]
Undefined == [t |-> "undefined", v |-> 0]
NaN == [t |-> "NaN", v |-> 0]
IsNum(x) == x.t = "num"
\* truthiness, as || and ! use it
Truthy(x) == (IsNum(x) /\ x.v # 0) \/ (x.t = "str" /\ x.v # <<>>)
\* a || b
JsOr(a, b) == IF Truthy(a) THEN a ELSE b
\* Math.ceil(a / b) for integers a and b > 0
CeilDiv(a, b) == -((-a) \div b)
\* parseInt(x, 10)
ParseInt(x) == IF IsNum(x) THEN x ELSE NaN
\* Math.min(a, b), Math.max(a, b)
MathMin(a, b) == IF IsNum(a) /\ IsNum(b) THEN Num(IF a.v < b.v THEN a.v ELSE b.v) ELSE NaN
MathMax(a, b) == IF IsNum(a) /\ IsNum(b) THEN Num(IF a.v > b.v THEN a.v ELSE b.v) ELSE NaN
\* a + b, a - b, Math.ceil(a / n)
JsAdd(a, b) == IF IsNum(a) /\ IsNum(b) THEN Num(a.v + b.v) ELSE NaN
JsSub(a, b) == IF IsNum(a) /\ IsNum(b) THEN Num(a.v - b.v) ELSE NaN
JsCeilDiv(a, n) == IF IsNum(a) THEN Num(CeilDiv(a.v, n)) ELSE NaN

\* ---------------------------------------------------------------- strings
\* a url is a sequence of characters: one whose host begins with "service"
\* and one whose host only contains it
UrlServices == <<"h", ":", "/", "/", "s", "e", "r", "v", "i", "c", "e", "s", "1", "/", "F">>
UrlOther    == <<"h", ":", "/", "/", "m", "y", "s", "e", "r", "v", "i", "c", "e", "/", "F">>
Urls == {UrlServices, UrlOther}

\* index of the first "//" of u, 0 when there is none
RECURSIVE FirstSlashes(_, _)
FirstSlashes(u, i) ==
  IF i + 1 > Len(u) THEN 0
  ELSE IF u[i] = "/" /\ u[i + 1] = "/" THEN i
  ELSE FirstSlashes(u, i + 1)

\* url.split('//')[1]: the text between the first and the second "//"
AfterSlashes(u) ==
  LET i == FirstSlashes(u, 1)
      rest == SubSeq(u, i + 2, Len(u))
      j == FirstSlashes(rest, 1)
  IN IF j = 0 THEN rest ELSE SubSeq(rest, 1, j - 1)

\* .match(/^service/)
MatchesService(h) ==
  /\ Len(h) >= 7
  /\ SubSeq(h, 1, 7) = <<"s", "e", "r", "v", "i", "c", "e">>

\* index.js:36
ConcurrencyOf(u) ==
  IF MatchesService(AfterSlashes(u)) THEN ServiceConcurrency ELSE DefaultConcurrency

\* the decimal digits, and the value of a digit character
Digits == <<"0", "1", "2", "3", "4", "5", "6", "7", "8", "9">>
IsDigit(c) == \E d \in 1..10 : Digits[d] = c
DigitValue(c) == (CHOOSE d \in 1..10 : Digits[d] = c) - 1

\* the value of the leading digits of text c, after the value acc
RECURSIVE LeadingDigits(_, _)
LeadingDigits(c, acc) ==
  IF c = <<>> \/ ~IsDigit(Head(c)) THEN acc
  ELSE LeadingDigits(Tail(c), 10 * acc + DigitValue(Head(c)))

\* parseInt(c, 10) of a text: an optional sign and the leading digits, NaN
\* when there is no digit
ParseIntText(c) ==
  LET neg == c # <<>> /\ Head(c) = "-"
      body == IF neg THEN Tail(c) ELSE c
  IN IF body = <<>> \/ ~IsDigit(Head(body)) THEN NaN
     ELSE Num((IF neg THEN -1 ELSE 1) * LeadingDigits(body, 0))

\* '' + n for an integer n >= 0
RECURSIVE NumberText(_)
NumberText(n) ==
  IF n < 10 THEN <<Digits[n + 1]>> ELSE NumberText(n \div 10) \o <<Digits[(n % 10) + 1]>>

\* '/' + x: the text a value contributes to a url
ToText(x) ==
  CASE x.t = "str" -> x.v
    [] x.t = "num" -> IF x.v < 0 THEN <<"-">> \o NumberText(-x.v) ELSE NumberText(x.v)
    [] x.t = "NaN" -> <<"N", "a", "N">>
    [] OTHER -> <<"u", "n", "d", "e", "f", "i", "n", "e", "d">>

\* index of the last "/" of u at or before i, 0 when there is none
RECURSIVE LastSlash(_, _)
LastSlash(u, i) ==
  IF i = 0 THEN 0 ELSE IF u[i] = "/" THEN i ELSE LastSlash(u, i - 1)

\* index.js:24: url.split('/').pop()
LastSegment(u) == SubSeq(u, LastSlash(u, Len(u)) + 1, Len(u))

\* index.js:26-30: the layer the url ends with, undefined when its last
\* segment does not parse as an integer >= 0
UrlLayer(u) ==
  LET n == ParseIntText(LastSegment(u))
  IN IF IsNum(n) /\ n.v >= 0 THEN Str(LastSegment(u)) ELSE Undefined

\* index.js:29: url.substring(0, url.length - ((len || 2) + 1))
StripLayer(u) ==
  LET l == UrlLayer(u)
      len == IF l.t = "str" THEN Len(l.v) ELSE 0
  IN IF l.t # "str" THEN u
     ELSE SubSeq(u, 1, Len(u) - ((IF len = 0 THEN 2 ELSE len) + 1))

\* the options argument: its layer
NoOptions == [layer |-> Undefined]

\* index.js:34: layer || this.options.layer || 0
LayerOf(u, o) == JsOr(JsOr(UrlLayer(u), o.layer), Num(0))

\* ------------------------------------------------------------------ state
VARIABLES
  url,             \* this.url
  layer,           \* this.layer
  options,         \* this.options (its layer; objectIdField is kept apart)
  pushed,          \* number of tasks pushed so far (tasks are 1..pushed)
  throws,          \* throws[t]: http.request throws for task t's url (try/catch of _requestFeatures)
  tasks,           \* pageQueue.tasks: the queued tasks, in order
  workers,         \* the queue's count of running workers
  processPending,  \* a setImmediate(q.process) is scheduled
  retry,           \* task.retry (0 when unset)
  timers,          \* timers[t]: pending setTimeout retries of task t
  open,            \* open[t]: open requests of task t whose timeout has not fired
  late,            \* late[t]: open requests of task t whose timeout has fired
  invoked,         \* invoked[t]: calls of _requestFeatures for task t so far
  failures,        \* failures[t]: calls of _catchErrors for task t so far
  called,          \* called[t]: the queue's callback of task t was called
  outcome,         \* what the callback pushed with task t received
  abortLog,        \* the tasks for which _abortPaging ran, in order
  killed,          \* the tasks pageQueue.kill() removed from the queue
  crashed,         \* an exception left an event handler uncaught
  pcalled,         \* pages() has been called
  popen,           \* popen[k]: open requests of kind k made through request(), timeout not fired
  plate,           \* plate[k]: open requests of kind k whose timeout has fired
  meta,            \* the metadata object built by metadata()
  objectIdField,   \* this.options.objectIdField
  cbLog,           \* what the callback given to pages() received, in order
  statsLog,        \* the statistics responses _getIdRangeFromStats handled, and what it did
  requested,       \* requested[k]: requests of kind k made through request() so far
  failed,          \* failed[k]: requests of kind k whose callback reported a failure so far
  counted,         \* json.count of the last count response metadata() was given
  call             \* a direct call of a page builder, or the last response _decode
                   \* was given: the arguments and the result

qvars == <<url, layer, options, pushed, throws, tasks, workers, processPending, retry, timers, open,
           late, invoked, failures, called, outcome, abortLog, killed, crashed>>

pvars == <<pcalled, popen, plate, meta, objectIdField, cbLog, statsLog, requested, failed,
           counted>>

vars == <<qvars, pvars, call>>

concurrency == ConcurrencyOf(url)

Range(f) == {f[i] : i \in DOMAIN f}

RECURSIVE SumUpTo(_, _)
SumUpTo(f, n) == IF n = 0 THEN 0 ELSE f[n] + SumUpTo(f, n - 1)
\* the sum of f over the tasks
Sum(f) == SumUpTo(f, MaxTasks)

\* the mutable part of the state, as one record the handlers transform
Cur ==
  [tasks |-> tasks, workers |-> workers, processPending |-> processPending,
   retry |-> retry, timers |-> timers, open |-> open, late |-> late,
   invoked |-> invoked, failures |-> failures, called |-> called,
   outcome |-> outcome, abortLog |-> abortLog, killed |-> killed,
   crashed |-> crashed]

Commit(s) ==
  /\ tasks' = s.tasks
  /\ workers' = s.workers
  /\ processPending' = s.processPending
  /\ retry' = s.retry
  /\ timers' = s.timers
  /\ open' = s.open
  /\ late' = s.late
  /\ invoked' = s.invoked
  /\ failures' = s.failures
  /\ called' = s.called
  /\ outcome' = s.outcome
  /\ abortLog' = s.abortLog
  /\ killed' = s.killed
  /\ crashed' = s.crashed

RECURSIVE process(_), _requestFeatures(_, _), _catchErrors(_, _), _abortPaging(_, _), QueueCallback(_, _, _)

\* async.queue: cb = only_once(_next(q, tasks)); a second call throws,
\* the first frees the worker, calls the task's callback and runs q.process()
QueueCallback(s, t, res) ==
  IF s.called[t]
  THEN [s EXCEPT !.crashed = TRUE]
  ELSE process([s EXCEPT !.called[t] = TRUE, !.workers = @ - 1, !.outcome[t] = res])

\* async.queue q.process: start queued tasks while a worker is free
process(s) ==
  IF ~s.crashed /\ s.workers < concurrency /\ s.tasks # <<>>
  THEN process(_requestFeatures([s EXCEPT !.tasks = Tail(@), !.workers = @ + 1],
                                Head(s.tasks)))
  ELSE s

\* _abortPaging without pageQueue.kill(): the queued tasks stay queued
AbortWithoutKill(s, t) ==
  QueueCallback([s EXCEPT !.killed = @ \cup Range(s.tasks),
                          !.abortLog = Append(@, t)], t, "error")

\* index.js:508-511
_abortPaging(s, t) ==
  QueueCallback([s EXCEPT !.tasks = <<>>,
                          !.killed = @ \cup Range(s.tasks),
                          !.abortLog = Append(@, t)], t, "error")

\* _catchErrors aborting one failure early (task.retry === 2)
CatchErrorsEarly(s, t) ==
  LET s1 == [s EXCEPT !.failures[t] = @ + 1]
  IN IF s1.retry[t] # 0 /\ s1.retry[t] = RetryLimit - 1
     THEN _abortPaging(s1, t)
     ELSE [s1 EXCEPT !.retry[t] = IF @ = 0 THEN 1 ELSE @ + 1,
                     !.timers[t] = @ + 1]

\* _catchErrors aborting one failure late (task.retry === 4)
CatchErrorsLate(s, t) ==
  LET s1 == [s EXCEPT !.failures[t] = @ + 1]
  IN IF s1.retry[t] # 0 /\ s1.retry[t] = RetryLimit + 1
     THEN _abortPaging(s1, t)
     ELSE [s1 EXCEPT !.retry[t] = IF @ = 0 THEN 1 ELSE @ + 1,
                     !.timers[t] = @ + 1]

\* _catchErrors setting the counter back to 1 on the third failure
CatchErrorsReset(s, t) ==
  LET s1 == [s EXCEPT !.failures[t] = @ + 1]
  IN IF s1.retry[t] # 0 /\ s1.retry[t] = RetryLimit
     THEN _abortPaging(s1, t)
     ELSE [s1 EXCEPT !.retry[t] = IF @ = 2 THEN 1 ELSE @ + 1,
                     !.timers[t] = @ + 1]

\* index.js:468-484
_catchErrors(s, t) ==
  LET s1 == [s EXCEPT !.failures[t] = @ + 1]
  IN IF s1.retry[t] # 0 /\ s1.retry[t] = RetryLimit
     THEN _abortPaging(s1, t)
     ELSE [s1 EXCEPT !.retry[t] = IF @ = 0 THEN 1 ELSE @ + 1,
                     !.timers[t] = @ + 1]

\* index.js:373-429: the request is opened, or the try block throws
_requestFeatures(s, t) ==
  LET s1 == [s EXCEPT !.invoked[t] = @ + 1]
  IN IF throws[t]
     THEN _catchErrors(s1, t)
     ELSE [s1 EXCEPT !.open[t] = @ + 1]

\* ---------------------------------------------------------------- _decode
Encodings == {"gzip", "deflate", "plain"}
\* response bodies: no chunk at all, text that is no JSON, JSON but for NaN
\* tokens, JSON carrying an error field, JSON of a page
Bodies == {"empty", "garbage", "nan", "error", "page"}

\* index.js:443-449: JSON.parse of the decoded text; NaN is replaced in the
\* gzip and plain branches only
ParseBody(enc, body) ==
  CASE body = "garbage" -> "throws"
    [] body = "nan" -> IF enc = "deflate" THEN "throws" ELSE "page"
    [] OTHER -> body

\* _decode calling back with the page whatever the JSON carries
DecodeIgnoringError(enc, body) ==
  IF body = "empty"
  THEN [calls |-> <<"err">>, threw |-> FALSE]
  ELSE LET json == ParseBody(enc, body)
       IN CASE json = "throws" -> [calls |-> <<"err">>, threw |-> TRUE]
            [] json = "null" -> [calls |-> <<>>, threw |-> TRUE]
            [] OTHER -> [calls |-> <<"page">>, threw |-> FALSE]

\* index.js:436-460: the callback invocations _decode makes, in order, and
\* whether it ends by throwing (json.error of an undefined or null json)
_decode(enc, body) ==
  IF body = "empty"
  THEN [calls |-> <<"err">>, threw |-> FALSE]
  ELSE LET json == ParseBody(enc, body)
       IN CASE json = "throws" -> [calls |-> <<"err">>, threw |-> TRUE]
            [] json = "null" -> [calls |-> <<>>, threw |-> TRUE]
            [] json = "error" -> [calls |-> <<"err">>, threw |-> FALSE]
            [] OTHER -> [calls |-> <<"page">>, threw |-> FALSE]

\* index.js:403-407: the callback _requestFeatures gives to _decode
RECURSIVE DecodeCallbacks(_, _, _)
DecodeCallbacks(s, t, calls) ==
  IF calls = <<>> \/ s.crashed THEN s
  ELSE DecodeCallbacks(IF Head(calls) = "err"
                       THEN _catchErrors(s, t)
                       ELSE QueueCallback(s, t, "page"),
                       t, Tail(calls))

\* ---------------------------------------------------------------- actions
\* index.js:16-42: new FeatureService(u, o)
Construct(u, o) ==
  /\ url = StripLayer(u)
  /\ options = o
  /\ layer = LayerOf(u, o)

\* the pageQueue of a new FeatureService: nothing pushed, nothing running
QueueIdle ==
  /\ pushed = 0
  /\ throws = [t \in Tasks |-> FALSE]
  /\ tasks = <<>>
  /\ workers = 0
  /\ processPending = FALSE
  /\ retry = [t \in Tasks |-> 0]
  /\ timers = [t \in Tasks |-> 0]
  /\ open = [t \in Tasks |-> 0]
  /\ late = [t \in Tasks |-> 0]
  /\ invoked = [t \in Tasks |-> 0]
  /\ failures = [t \in Tasks |-> 0]
  /\ called = [t \in Tasks |-> FALSE]
  /\ outcome = [t \in Tasks |-> "none"]
  /\ abortLog = <<>>
  /\ killed = {}
  /\ crashed = FALSE

QueueInit ==
  /\ \E u \in Urls : Construct(u, NoOptions)
  /\ QueueIdle

\* an open request of task t: its timeout has fired (st = "late") or not
HasRequest(t, st) == IF st = "late" THEN late[t] > 0 ELSE open[t] > 0

\* the request is over: no further event of it arrives
CloseRequest(s, t, st) ==
  IF st = "late" THEN [s EXCEPT !.late[t] = @ - 1] ELSE [s EXCEPT !.open[t] = @ - 1]

\* the caller: pageQueue.push(task, callback); async schedules q.process
Push(bad) ==
  /\ ~crashed
  /\ pushed < MaxTasks
  /\ pushed' = pushed + 1
  /\ throws' = [throws EXCEPT ![pushed + 1] = bad]
  /\ Commit([Cur EXCEPT !.tasks = Append(@, pushed + 1), !.processPending = TRUE])
  /\ UNCHANGED <<url, layer, options, pvars, call>>

\* the scheduled q.process runs
Process ==
  /\ ~crashed
  /\ processPending
  /\ Commit(process([Cur EXCEPT !.processPending = FALSE]))
  /\ UNCHANGED <<url, layer, options, pushed, throws, pvars, call>>

\* index.js:481-483: the retry timer of _catchErrors fires
RetryTimer(t) ==
  /\ ~crashed
  /\ timers[t] > 0
  /\ Commit(_requestFeatures([Cur EXCEPT !.timers[t] = @ - 1], t))
  /\ UNCHANGED <<url, layer, options, pushed, throws, pvars, call>>

\* index.js:411-416: req.setTimeout fires; req.end() leaves the request open
Timeout(t) ==
  /\ ~crashed
  /\ open[t] > 0
  /\ Commit(_catchErrors([Cur EXCEPT !.open[t] = @ - 1, !.late[t] = @ + 1], t))
  /\ UNCHANGED <<url, layer, options, pushed, throws, pvars, call>>

\* index.js:419-421: req.on('error')
RequestError(t, st) ==
  /\ ~crashed
  /\ HasRequest(t, st)
  /\ Commit(_catchErrors(CloseRequest(Cur, t, st), t))
  /\ UNCHANGED <<url, layer, options, pushed, throws, pvars, call>>

\* index.js:398-400: response.on('error')
ResponseError(t, st) ==
  /\ ~crashed
  /\ HasRequest(t, st)
  /\ Commit(_catchErrors(CloseRequest(Cur, t, st), t))
  /\ UNCHANGED <<url, layer, options, pushed, throws, pvars, call>>

\* index.js:402-408: response.on('end')
ResponseEnd(t, st, d) ==
  /\ ~crashed
  /\ HasRequest(t, st)
  /\ LET s == DecodeCallbacks(CloseRequest(Cur, t, st), t, d.calls)
     IN Commit(IF d.threw THEN [s EXCEPT !.crashed = TRUE] ELSE s)
  /\ UNCHANGED <<url, layer, options, pushed, throws, pvars, call>>

States == {"open", "late"}

\* what _decode does with the responses a server can send
Decoded == {_decode(enc, body) : enc \in Encodings, body \in Bodies}


\* index.js:216  the largest page size pages() uses
MaxPageSize == 1000

\* index.js:216: Math.min(parseInt(size, 10), 1000) || 1000
EffectiveSize(size) == JsOr(MathMin(ParseInt(size), Num(MaxPageSize)), Num(MaxPageSize)).v

\* index.js:217: Math.ceil(meta.count / size)
PageCount(count, size) == JsCeilDiv(count, size)

\* ---------------------------------------------------------- page builders
\* index.js:294, 322, 360: (this.options.layer || 0) in the url of a page
PageLayer == ToText(JsOr(options.layer, Num(0)))

\* _offsetPages with resultOffset = (i + 1) * max: the first page is skipped
OffsetPagesFromOne(pages, max) ==
  IF ~IsNum(pages) \/ pages.v < 1 THEN <<>>
  ELSE [i \in 1..pages.v |->
          [kind |-> "offset", layer |-> PageLayer, resultOffset |-> i * max, resultRecordCount |-> max]]

\* index.js:287-302
_offsetPages(pages, max) ==
  IF ~IsNum(pages) \/ pages.v < 1 THEN <<>>
  ELSE [i \in 1..pages.v |->
          [kind |-> "offset", layer |-> PageLayer, resultOffset |-> (i - 1) * max, resultRecordCount |-> max]]

\* index.js:348: the number of range pages
RangePageCount(stats, size) ==
  MathMax(IF IsNum(stats.max) /\ stats.max.v = size
          THEN stats.max
          ELSE JsCeilDiv(JsSub(stats.max, stats.min), size),
          Num(1))

\* index.js:350-363: the loop of _rangePages from page i on
RECURSIVE RangeLoop(_, _, _, _, _)
RangeLoop(stats, size, objId, i, pages) ==
  IF ~(i < pages) THEN <<>>
  ELSE LET pageMax == IF i = pages - 1 THEN stats.max
                      ELSE JsSub(JsAdd(stats.min, Num(size * (i + 1))), Num(1))
           pageMin == JsAdd(stats.min, Num(size * i))
       IN <<[kind |-> "range", layer |-> PageLayer, field |-> objId, pageMin |-> pageMin, pageMax |-> pageMax]>>
          \o RangeLoop(stats, size, objId, i + 1, pages)

\* _rangePages without the last page's pageMax = stats.max
RangePagesNoClamp(stats, size, objId) ==
  LET pages == RangePageCount(stats, size)
  IN IF ~IsNum(pages) THEN <<>>
     ELSE [i \in 1..pages.v |->
             [kind |-> "range", layer |-> PageLayer, field |-> objId,
              pageMin |-> JsAdd(stats.min, Num(size * (i - 1))),
              pageMax |-> JsSub(JsAdd(stats.min, Num(size * i)), Num(1))]]

\* index.js:339-366
_rangePages(stats, size, objId) ==
  LET pages == RangePageCount(stats, size)
  IN IF ~IsNum(pages) THEN <<>> ELSE RangeLoop(stats, size, objId, 0, pages.v)

\* the loop of _idPages running Math.floor(ids.length / size) times: the
\* remainder is not drained
RECURSIVE IdLoopNoRemainder(_, _, _, _, _)
IdLoopNoRemainder(ids, size, oidField, i, len) ==
  IF ~((i + 1) * size <= len) THEN <<>>
  ELSE LET n == IF Len(ids) < size THEN Len(ids) ELSE size
           pageIds == SubSeq(ids, 1, n)
           rest == SubSeq(ids, n + 1, Len(ids))
       IN (IF pageIds = <<>> THEN <<>>
           ELSE <<[kind |-> "id", layer |-> PageLayer, lowField |-> oidField, highField |-> "oidField",
                   pageMin |-> IF pageIds[1] = 0 THEN 0 ELSE pageIds[1] - 1,
                   pageMax |-> pageIds[n]]>>)
          \o IdLoopNoRemainder(rest, size, oidField, i + 1, len)

\* index.js:315-326: the loop of _idPages; len is ids.length before the loop
RECURSIVE IdLoop(_, _, _, _, _)
IdLoop(ids, size, oidField, i, len) ==
  IF ~((i - 1) * size < len) THEN <<>>
  ELSE LET n == IF Len(ids) < size THEN Len(ids) ELSE size
           pageIds == SubSeq(ids, 1, n)
           rest == SubSeq(ids, n + 1, Len(ids))
       IN (IF pageIds = <<>> THEN <<>>
           ELSE <<[kind |-> "id", layer |-> PageLayer, lowField |-> oidField, highField |-> "oidField",
                   pageMin |-> IF pageIds[1] = 0 THEN 0 ELSE pageIds[1] - 1,
                   pageMax |-> pageIds[n]]>>)
          \o IdLoop(rest, size, oidField, i + 1, len)

\* index.js:310-329
_idPages(ids, size, field) ==
  IdLoop(ids, size, IF field = "undefined" THEN "objectId" ELSE field,
         0, Len(ids))

\* index.js:175: objectIds.sort(function (a, b) { return a - b })
RECURSIVE Insert(_, _)
Insert(x, sorted) ==
  IF sorted = <<>> THEN <<x>>
  ELSE IF x <= Head(sorted) THEN <<x>> \o sorted
  ELSE <<Head(sorted)>> \o Insert(x, Tail(sorted))
RECURSIVE SortAscending(_)
SortAscending(ids) ==
  IF ids = <<>> THEN <<>> ELSE Insert(Head(ids), SortAscending(Tail(ids)))

\* ---------------------------------------------------------------- pages()
Kinds == {"layerInfo", "featureCount", "statistics", "layerIds"}

\* what request() hands to its callback: an error (transport error, timeout,
\* body that is no JSON), the JSON null, a JSON object carrying an error
\* field, or a JSON object of the expected shape
Outcomes == {"err", "null", "error", "json"}

MaxRecordCounts == {Undefined, Num(0), Num(2), Num(MaxPageSize + 1)}
Counts == (0..MaxCount) \cup {MaxPageSize + 1, 2 * MaxPageSize + 1}

NoLayer == [kind |-> "err", fields |-> "missing", maxRecordCount |-> Undefined,
            currentVersion |-> FALSE, supportsPagination |-> FALSE,
            supportsStatistics |-> FALSE]
LayerResponses ==
  {[NoLayer EXCEPT !.kind = k] : k \in Outcomes \ {"json"}}
  \cup [kind : {"json"}, fields : {"missing", "noOid", "oid"},
        maxRecordCount : MaxRecordCounts, currentVersion : BOOLEAN,
        supportsPagination : BOOLEAN, supportsStatistics : BOOLEAN]

CountResponses ==
  {[kind |-> k, count |-> 0] : k \in Outcomes \ {"json"}}
  \cup [kind : {"json"}, count : Counts]

\* a statistics response: features is absent, empty or holds one feature
\* whose attributes carry min and max under the keys min/max ("lower"),
\* MIN/MAX ("upper"), the outStatisticFieldName keys ("stat") or not at all
\* ("none"); fieldAliases is absent, names the "stat" keys or names other keys
NoStats == [kind |-> "err", features |-> "missing", keys |-> "none",
            aliases |-> "missing", min |-> 0, max |-> 0]
StatsResponses ==
  {[NoStats EXCEPT !.kind = k] : k \in Outcomes \ {"json"}}
  \cup {[NoStats EXCEPT !.kind = "json", !.features = f] : f \in {"missing", "empty"}}
  \cup {[kind |-> "json", features |-> "one", keys |-> k, aliases |-> a,
         min |-> lo, max |-> hi] :
          k \in {"lower", "upper", "stat", "none"},
          a \in {"missing", "stat", "other"},
          lo \in 0..1, hi \in {MaxId}}

\* the id lists a server may send: none, 1..MaxId ascending, 0..MaxId descending
IdLists == {<<>>, [i \in 1..MaxId |-> i], [i \in 1..(MaxId + 1) |-> MaxId + 1 - i]}
IdsResponses ==
  {[kind |-> k, hasIds |-> FALSE, objectIds |-> <<>>] : k \in Outcomes}
  \cup [kind : {"json"}, hasIds : {TRUE}, objectIds : IdLists]

Responses(k) ==
  CASE k = "layerInfo" -> LayerResponses
    [] k = "featureCount" -> CountResponses
    [] k = "statistics" -> StatsResponses
    [] OTHER -> IdsResponses

\* the error request() reports for a timeout or an 'error' event
RequestFailed(k) == CHOOSE r \in Responses(k) : r.kind = "err" /\ (k = "layerIds" => ~r.hasIds)

NoMeta == [set |-> FALSE, oid |-> "undefined", size |-> Undefined, count |-> Undefined,
           currentVersion |-> FALSE, supportsPagination |-> FALSE,
           supportsStatistics |-> FALSE]

PCur ==
  [popen |-> popen, plate |-> plate, meta |-> meta, objectIdField |-> objectIdField,
   cbLog |-> cbLog, statsLog |-> statsLog, requested |-> requested, failed |-> failed,
   counted |-> counted, crashed |-> crashed]

PCommit(p) ==
  /\ popen' = p.popen
  /\ plate' = p.plate
  /\ meta' = p.meta
  /\ objectIdField' = p.objectIdField
  /\ cbLog' = p.cbLog
  /\ statsLog' = p.statsLog
  /\ requested' = p.requested
  /\ failed' = p.failed
  /\ counted' = p.counted
  /\ crashed' = p.crashed

\* the callback given to pages() is called
Callback(p, via, pages) == [p EXCEPT !.cbLog = Append(@, [via |-> via, pages |-> pages])]
\* an exception leaves the handler
Throw(p) == [p EXCEPT !.crashed = TRUE]
\* index.js:120, 137, 168, 268: the layer in the url of a request of kind k
RequestLayer(k) ==
  IF k = "featureCount" THEN ToText(JsOr(layer, Num(0))) ELSE ToText(layer)

\* FeatureService.prototype.request: the request is sent
request(p, k) == [p EXCEPT !.popen[k] = @ + 1, !.requested[k] = @ + 1]
\* index.js:139, 170, 253, 273: the callback of a request of kind k finds it failed
Failed(p, k) == [p EXCEPT !.failed[k] = @ + 1]

\* index.js:167-178 with the callbacks of pages() (index.js:229-233, 237-240)
OnLayerIds(p, r) ==
  CASE r.kind = "err" -> Callback(Failed(p, "layerIds"), "error", <<>>)
    [] r.kind = "null" -> Throw(p)
    [] ~r.hasIds -> Callback(Failed(p, "layerIds"), "error", <<>>)
    [] OTHER -> Callback(p, "id",
                         _idPages(SortAscending(r.objectIds),
                                  EffectiveSize(p.meta.size), p.objectIdField))

\* the result of an expression that throws a TypeError
Thrown == [t |-> "throws", v |-> 0]

\* index.js:254-258: attrs.min || attrs.MIN || attrs[names[0]] (which = "min"),
\* attrs.max || attrs.MAX || attrs[names[1]] (which = "max")
ExtractStat(r, which) ==
  LET value == Num(IF which = "min" THEN r.min ELSE r.max)
      lower == IF r.keys = "lower" THEN value ELSE Undefined
      upper == IF r.keys = "upper" THEN value ELSE Undefined
      named == IF r.aliases = "stat" /\ r.keys = "stat" THEN value ELSE Undefined
  IN IF Truthy(lower) THEN lower
     ELSE IF Truthy(upper) THEN upper
     ELSE IF r.aliases = "missing" THEN Thrown
     ELSE named

\* index.js:250-261: what _getIdRangeFromStats does with the response r:
\* calls back with an error, throws, or calls back with {min, max}
_getIdRangeFromStats(r) ==
  IF r.kind \in {"err", "error"} THEN "error"
  ELSE IF r.kind = "null" \/ r.features # "one" THEN "throws"
  ELSE IF ExtractStat(r, "min") = Thrown \/ ExtractStat(r, "max") = Thrown THEN "throws"
  ELSE "range"

\* index.js:225-234: the statistics branch of pages()
OnStatistics(p, r) ==
  LET did == _getIdRangeFromStats(r)
      p1 == [p EXCEPT !.statsLog = Append(@, [resp |-> r, did |-> did])]
  IN CASE did = "error" -> request(Failed(p1, "statistics"), "layerIds")
       [] did = "throws" -> Throw(p1)
       [] OTHER ->
            Callback(p1, "range",
                     _rangePages([min |-> ExtractStat(r, "min"), max |-> ExtractStat(r, "max")],
                                 EffectiveSize(p.meta.size), p.objectIdField))

\* index.js:213-241: pages() once metadata() has called back with meta
PagesWithMeta(p) ==
  LET size == EffectiveSize(p.meta.size)
      nPages == PageCount(p.meta.count, size)
      p1 == [p EXCEPT !.objectIdField = p.meta.oid]
  IN IF p.meta.supportsPagination THEN Callback(p1, "offset", _offsetPages(nPages, size))
     ELSE IF p.meta.supportsStatistics THEN request(p1, "statistics")
     ELSE request(p1, "layerIds")

\* metadata() accepting every count that is not negative
OnFeatureCountZero(p, r) ==
  CASE r.kind = "err" -> Callback(Failed(p, "featureCount"), "error", <<>>)
    [] r.kind = "null" -> Throw(p)
    [] r.kind = "error" -> Callback(Failed(p, "featureCount"), "error", <<>>)
    [] r.count < 0 -> Callback([p EXCEPT !.counted = Num(r.count)], "error", <<>>)
    [] OTHER -> PagesWithMeta([p EXCEPT !.counted = Num(r.count), !.meta.count = Num(r.count)])

\* index.js:267-279 with the callback of metadata() (index.js:197-202)
OnFeatureCount(p, r) ==
  CASE r.kind = "err" -> Callback(Failed(p, "featureCount"), "error", <<>>)
    [] r.kind = "null" -> Throw(p)
    [] r.kind = "error" -> Callback(Failed(p, "featureCount"), "error", <<>>)
    [] r.count < 1 -> Callback([p EXCEPT !.counted = Num(r.count)], "error", <<>>)
    [] OTHER -> PagesWithMeta([p EXCEPT !.counted = Num(r.count), !.meta.count = Num(r.count)])

\* layerInfo() requesting the layer again when its request failed
OnLayerInfoRetrying(p, r) ==
  IF r.kind # "json" THEN request(Failed(p, "layerInfo"), "layerInfo")
  ELSE IF r.fields = "missing" THEN Throw(p)
  ELSE LET p1 == [p EXCEPT !.meta =
                     [set |-> TRUE,
                      oid |-> IF r.fields = "oid" THEN "OBJECTID" ELSE "undefined",
                      size |-> r.maxRecordCount, count |-> Undefined,
                      currentVersion |-> r.currentVersion,
                      supportsPagination |-> r.supportsPagination,
                      supportsStatistics |-> r.supportsStatistics]]
       IN IF ~r.currentVersion THEN PagesWithMeta(p1) ELSE request(p1, "featureCount")

\* index.js:136-146 with the callback of metadata() (index.js:186-196)
OnLayerInfo(p, r) ==
  IF r.kind # "json" THEN Callback(Failed(p, "layerInfo"), "error", <<>>)
  ELSE IF r.fields = "missing" THEN Throw(p)
  ELSE LET p1 == [p EXCEPT !.meta =
                     [set |-> TRUE,
                      oid |-> IF r.fields = "oid" THEN "OBJECTID" ELSE "undefined",
                      size |-> r.maxRecordCount, count |-> Undefined,
                      currentVersion |-> r.currentVersion,
                      supportsPagination |-> r.supportsPagination,
                      supportsStatistics |-> r.supportsStatistics]]
       IN IF ~r.currentVersion THEN PagesWithMeta(p1) ELSE request(p1, "featureCount")

\* the callback request() was given for a request of kind k
OnResponse(p, k, r) ==
  CASE k = "layerInfo" -> OnLayerInfo(p, r)
    [] k = "featureCount" -> OnFeatureCount(p, r)
    [] k = "statistics" -> OnStatistics(p, r)
    [] OTHER -> OnLayerIds(p, r)

PHasRequest(k, st) == IF st = "late" THEN plate[k] > 0 ELSE popen[k] > 0
PCloseRequest(p, k, st) ==
  IF st = "late" THEN [p EXCEPT !.plate[k] = @ - 1] ELSE [p EXCEPT !.popen[k] = @ - 1]

PlannerInit ==
  /\ pcalled = FALSE
  /\ popen = [k \in Kinds |-> 0]
  /\ plate = [k \in Kinds |-> 0]
  /\ meta = NoMeta
  /\ objectIdField = "undefined"
  /\ cbLog = <<>>
  /\ statsLog = <<>>
  /\ requested = [k \in Kinds |-> 0]
  /\ failed = [k \in Kinds |-> 0]
  /\ counted = Undefined

NoCall == [fn |-> "none", min |-> 0, max |-> 0, ids |-> <<>>, size |-> 1,
           enc |-> "plain", body |-> "empty", task |-> 0, attempt |-> 0, threw |-> FALSE,
           done |-> FALSE, out |-> <<>>]

\* the state after new FeatureService(url, options)
Init ==
  /\ QueueInit
  /\ PlannerInit
  /\ call = NoCall

\* index.js:210-211: pages() calls metadata(), which calls layerInfo()
Pages ==
  /\ ~crashed
  /\ ~pcalled
  /\ pcalled' = TRUE
  /\ PCommit(request(PCur, "layerInfo"))
  /\ UNCHANGED <<url, layer, options, pushed, throws, tasks, workers, processPending, retry, timers, open,
                 late, invoked, failures, called, outcome, abortLog, killed, call>>

\* index.js:90-93: req.setTimeout of request() fires; req.end() leaves the request open
PTimeout(k) ==
  /\ ~crashed
  /\ popen[k] > 0
  /\ PCommit(OnResponse([PCur EXCEPT !.popen[k] = @ - 1, !.plate[k] = @ + 1], k,
                        RequestFailed(k)))
  /\ UNCHANGED <<url, layer, options, pushed, throws, tasks, workers, processPending, retry, timers, open,
                 late, invoked, failures, called, outcome, abortLog, killed, pcalled, call>>

\* index.js:95-97: req.on('error') of request()
PRequestError(k, st) ==
  /\ ~crashed
  /\ PHasRequest(k, st)
  /\ PCommit(OnResponse(PCloseRequest(PCur, k, st), k, RequestFailed(k)))
  /\ UNCHANGED <<url, layer, options, pushed, throws, tasks, workers, processPending, retry, timers, open,
                 late, invoked, failures, called, outcome, abortLog, killed, pcalled, call>>

\* index.js:72-74: response.on('error') of request()
PResponseError(k, st) ==
  /\ ~crashed
  /\ PHasRequest(k, st)
  /\ PCommit(OnResponse(PCloseRequest(PCur, k, st), k, RequestFailed(k)))
  /\ UNCHANGED <<url, layer, options, pushed, throws, tasks, workers, processPending, retry, timers, open,
                 late, invoked, failures, called, outcome, abortLog, killed, pcalled, call>>

\* index.js:76-86: response.on('end') of request()
PResponseEnd(k, st, r) ==
  /\ ~crashed
  /\ PHasRequest(k, st)
  /\ PCommit(OnResponse(PCloseRequest(PCur, k, st), k, r))
  /\ UNCHANGED <<url, layer, options, pushed, throws, tasks, workers, processPending, retry, timers, open,
                 late, invoked, failures, called, outcome, abortLog, killed, pcalled, call>>

\* ------------------------------------------------- the page builders alone
RangeCalls ==
  {[NoCall EXCEPT !.fn = "_rangePages", !.min = lo, !.max = hi, !.size = n] :
     lo \in 0..MaxId, hi \in 0..(2 * MaxId + 2), n \in 1..MaxSize}

\* spec.md section 8: min=1, max=250, size=100
RangeExample == [NoCall EXCEPT !.fn = "_rangePages", !.min = 1, !.max = 250, !.size = 100]

InitRange ==
  /\ QueueInit
  /\ PlannerInit
  /\ call \in {c \in RangeCalls : c.min <= c.max} \cup {RangeExample}

\* _rangePages({min, max}, size) is called
CallRangePages ==
  /\ call.fn = "_rangePages"
  /\ ~call.done
  /\ call' = [call EXCEPT !.done = TRUE,
                          !.out = _rangePages([min |-> Num(call.min), max |-> Num(call.max)],
                                              call.size, "OBJECTID")]
  /\ UNCHANGED <<qvars, pvars>>

\* ------------------------------------------------ the responses recorded
\* the bodies of Bodies and the JSON text null
DecodeBodies == Bodies \cup {"null"}

\* index.js:402-408: response.on('end'), the response (its content-encoding
\* and body) being recorded
ResponseEndOf(t, st, enc, body) ==
  /\ ~crashed
  /\ HasRequest(t, st)
  /\ LET d == _decode(enc, body)
         s == DecodeCallbacks(CloseRequest(Cur, t, st), t, d.calls)
     IN /\ Commit(IF d.threw THEN [s EXCEPT !.crashed = TRUE] ELSE s)
        /\ call' = [NoCall EXCEPT !.fn = "_decode", !.enc = enc, !.body = body,
                                  !.task = t, !.attempt = invoked[t],
                                  !.threw = d.threw, !.done = TRUE, !.out = d.calls]
  /\ UNCHANGED <<url, layer, options, pushed, throws, pvars>>

\* the ascending lists of unique ids among 0..MaxId, as layerIds() sorts them
AscendingLists ==
  {l \in UNION {[1..n -> 0..MaxId] : n \in 0..(MaxId + 1)} :
     \A i \in 1..(Len(l) - 1) : l[i] < l[i + 1]}

IdCalls ==
  {[NoCall EXCEPT !.fn = "_idPages", !.ids = l, !.size = n] :
     l \in AscendingLists, n \in 1..(MaxSize + 1)}

\* spec.md section 8: ids [1..10], size=4
IdExample == [NoCall EXCEPT !.fn = "_idPages", !.ids = [i \in 1..10 |-> i], !.size = 4]

InitIds ==
  /\ QueueInit
  /\ PlannerInit
  /\ call \in IdCalls \cup {IdExample}

\* _idPages(ids, size) is called
CallIdPages ==
  /\ call.fn = "_idPages"
  /\ ~call.done
  /\ call' = [call EXCEPT !.done = TRUE, !.out = _idPages(call.ids, call.size, "OBJECTID")]
  /\ UNCHANGED <<qvars, pvars>>

\* a url without a layer and one that ends with the layer 12
LayerUrls == {UrlOther, UrlOther \o <<"/", "1", "2">>}
LayerOptions == {NoOptions, [layer |-> Num(1)]}

InitLayer ==
  /\ \E u \in LayerUrls, o \in LayerOptions : Construct(u, o)
  /\ QueueIdle
  /\ PlannerInit
  /\ call = NoCall

\* ---------------------------------------------------------- specifications
Next ==
  \/ \E bad \in BOOLEAN : Push(bad)
  \/ Process
  \/ \E t \in Tasks : RetryTimer(t)
  \/ \E t \in Tasks : Timeout(t)
  \/ \E t \in Tasks, st \in States : RequestError(t, st)
  \/ \E t \in Tasks, st \in States : ResponseError(t, st)
  \/ \E t \in Tasks, st \in States, d \in Decoded : ResponseEnd(t, st, d)

Spec == Init /\ [][Next]_vars

\* some event of an open request of task t arrives: req.setTimeout
\* (index.js:411) fires if nothing else does
OpenRequestEvent(t) ==
  \/ Timeout(t)
  \/ RequestError(t, "open")
  \/ ResponseError(t, "open")
  \/ \E d \in Decoded : ResponseEnd(t, "open", d)

\* the event loop runs the scheduled q.process and every retry timer, and
\* every request is answered, fails or times out; a request whose timeout has
\* fired need not see another event, and the caller need not push
Fairness ==
  /\ WF_vars(Process)
  /\ \A t \in Tasks : WF_vars(RetryTimer(t))
  /\ \A t \in Tasks : WF_vars(OpenRequestEvent(t))

SpecLive == Init /\ [][Next]_vars /\ Fairness

NextPages ==
  \/ Pages
  \/ \E k \in Kinds : PTimeout(k)
  \/ \E k \in Kinds, st \in States : PRequestError(k, st)
  \/ \E k \in Kinds, st \in States : PResponseError(k, st)
  \/ \E k \in Kinds, st \in States : \E r \in Responses(k) : PResponseEnd(k, st, r)

SpecPages == Init /\ [][NextPages]_vars

NextRange == CallRangePages

SpecRange == InitRange /\ [][NextRange]_vars

\* the page queue with every response recorded; the server answers or fails
\* each request before its timeout
NextDecode ==
  \/ \E bad \in BOOLEAN : Push(bad)
  \/ Process
  \/ \E t \in Tasks : RetryTimer(t)
  \/ \E t \in Tasks : RequestError(t, "open")
  \/ \E t \in Tasks : ResponseError(t, "open")
  \/ \E t \in Tasks, enc \in Encodings, body \in DecodeBodies :
       ResponseEndOf(t, "open", enc, body)

SpecDecode == Init /\ [][NextDecode]_vars

SpecLayer == InitLayer /\ [][NextPages]_vars

NextIds == CallIdPages

SpecIds == InitIds /\ [][NextIds]_vars

\* ================================================================ claims
Aborted(t) == \E i \in 1..Len(abortLog) : abortLog[i] = t
InFlight == Sum(open) + Sum(late)

\* C1 as stated: after 3 recorded failures of a task the operation aborts
\* and no 4th fetch attempt of that task is issued.
C1_NoFourthAttempt ==
  \A t \in Tasks : invoked[t] <= RetryLimit

\* C1 as amended: 3 recorded failures of a task do not abort; when the retry
\* counter reaches 3 a 4th fetch attempt is scheduled or issued, and no 5th
\* attempt of that task is ever made.
C1_FourthAttemptThenAbort ==
  \A t \in Tasks :
    /\ failures[t] <= RetryLimit => ~Aborted(t)
    /\ retry[t] = RetryLimit => (timers[t] > 0 \/ invoked[t] = RetryLimit + 1)
    /\ invoked[t] <= RetryLimit + 1

C1_Witness ==
  \E t \in Tasks : failures[t] = RetryLimit /\ invoked[t] = RetryLimit + 1 /\ open[t] = 1

\* C2: a task is fetched at most 4 times; _abortPaging runs for it at its 4th
\* failure and not before, and a task none of whose fetches delivered a page
\* then has its callback called with the error.
C2_AbortAtFourthFailure ==
  \A t \in Tasks :
    /\ invoked[t] <= RetryLimit + 1
    /\ Aborted(t) <=> failures[t] >= RetryLimit + 1
    /\ (Aborted(t) /\ outcome[t] # "page") => (called[t] /\ outcome[t] = "error")

C2_Witness ==
  \E t \in Tasks :
    /\ Aborted(t) /\ failures[t] = RetryLimit + 1 /\ invoked[t] = RetryLimit + 1
    /\ outcome[t] = "error" /\ ~crashed

C4_AbortOnce ==
  Len(abortLog) <= 1

\* C5: the number of page requests in flight never exceeds the concurrency.
C5_InFlightBounded ==
  InFlight <= concurrency

\* C6: a task has at most one outstanding attempt, an open request or a
\* pending retry timer.
C6_OneAttemptPerTask ==
  \A t \in Tasks : timers[t] + open[t] + late[t] <= 1

\* C7 as stated: task.retry increases by exactly 1 on every failed fetch,
\* the one that triggers the abort included, and never decreases.
C7_IncrementOnEveryFailure ==
  [][\A t \in Tasks :
       /\ failures'[t] # failures[t] => retry'[t] = retry[t] + 1
       /\ retry'[t] >= retry[t]]_vars

\* C7 as amended: task.retry increases by exactly 1 on every failed fetch
\* handled while it is below 3, stays 3 on the failure that triggers the
\* abort, changes on no other step and never decreases.
C7_IncrementUntilAbort ==
  [][\A t \in Tasks :
       /\ (failures'[t] # failures[t] /\ retry[t] < RetryLimit) => retry'[t] = retry[t] + 1
       /\ (failures'[t] # failures[t] /\ retry[t] = RetryLimit) => retry'[t] = RetryLimit
       /\ failures'[t] = failures[t] => retry'[t] = retry[t]
       /\ failures'[t] \in {failures[t], failures[t] + 1}
       /\ retry'[t] >= retry[t]]_vars

C7_Witness ==
  \E t \in Tasks : retry[t] = RetryLimit /\ failures[t] = RetryLimit + 1

\* the statistics responses C8 counts as failures of the statistics step: a
\* failed request, a service-reported error, no feature to read, neither
\* named min/max keys nor fieldAliases, or a minimum of 0 under a named key
\* with no fieldAliases to fall back on
StatsStepFailed(r) ==
  \/ r.kind \in {"err", "error"}
  \/ /\ r.kind = "json"
     /\ \/ r.features # "one"
        \/ r.keys \notin {"lower", "upper"} /\ r.aliases = "missing"
        \/ r.min = 0 /\ r.aliases = "missing"

\* C8: every failure of the statistics step makes pages() fall back to
\* layerIds(); _getIdRangeFromStats never throws and never yields range pages
\* for such a response.
C8_StatsFailureFallsBack ==
  \A i \in 1..Len(statsLog) :
    StatsStepFailed(statsLog[i].resp) => statsLog[i].did = "error"

\* C9: with native pagination, count C >= 1 and maxRecordCount M, pages()
\* calls back with exactly ceil(C / size) offset pages, size = min(M, 1000)
\* (1000 when M is missing or 0); page i has resultOffset i * size and
\* resultRecordCount size.
C9_OffsetPages ==
  \A i \in 1..Len(cbLog) :
    (cbLog[i].via = "offset" /\ IsNum(meta.count) /\ meta.count.v >= 1) =>
      LET M == meta.size
          size == IF IsNum(M) /\ M.v # 0
                  THEN (IF M.v < MaxPageSize THEN M.v ELSE MaxPageSize)
                  ELSE MaxPageSize
          pages == cbLog[i].pages
          n == Len(pages)
      IN /\ n * size >= meta.count.v
         /\ (n - 1) * size < meta.count.v
         /\ \A j \in 1..n : /\ pages[j].resultOffset = (j - 1) * size
                             /\ pages[j].resultRecordCount = size
         /\ \A j, k \in 1..n : j # k => pages[j].resultOffset # pages[k].resultOffset

C9_Witness ==
  \E i \in 1..Len(cbLog) :
    /\ cbLog[i].via = "offset"
    /\ meta.size = Num(MaxPageSize + 1)
    /\ meta.count = Num(2 * MaxPageSize + 1)
    /\ Len(cbLog[i].pages) = 3

\* C10: _rangePages({min, max}, size) returns max(ceil((max - min) / size), 1)
\* pages, or max pages when max = size; page i has pageMin = min + size * i and
\* pageMax = min + size * (i + 1) - 1, but the last page has pageMax = max.
C10_RangePages ==
  call.done =>
    LET span == call.max - call.min
        ceil == CHOOSE k \in 0..(span + 1) :
                  k * call.size >= span /\ (k - 1) * call.size < span
        n == IF call.max = call.size THEN call.max
             ELSE IF ceil > 1 THEN ceil ELSE 1
    IN /\ Len(call.out) = n
       /\ \A i \in 0..(n - 1) :
            /\ call.out[i + 1].pageMin = Num(call.min + call.size * i)
            /\ call.out[i + 1].pageMax =
                 IF i = n - 1 THEN Num(call.max)
                 ELSE Num(call.min + call.size * (i + 1) - 1)

C10_Witness ==
  /\ call.done
  /\ call.min = 1 /\ call.max = 250 /\ call.size = 100
  /\ Len(call.out) = 3
  /\ call.out[3].pageMin = Num(201) /\ call.out[3].pageMax = Num(250)

\* the number of chunks of size ids in a list of n ids
ChunkCount(n, size) == CHOOSE k \in 0..n : k * size >= n /\ (k - 1) * size < n
\* the first and the last id of the k-th chunk of size ids
ChunkFirst(ids, size, k) == ids[(k - 1) * size + 1]
ChunkLast(ids, size, k) == ids[IF k * size < Len(ids) THEN k * size ELSE Len(ids)]

\* the pages of _idPages are the chunks of the list: ceil(n / size) pages,
\* pageMax the chunk's last id, pageMin the chunk's first id - 1 (the first
\* id itself when it is 0)
IdPagesAreChunks ==
  LET np == ChunkCount(Len(call.ids), call.size)
  IN /\ Len(call.out) = np
     /\ \A k \in 1..np :
          LET first == ChunkFirst(call.ids, call.size, k)
          IN /\ call.out[k].pageMax = ChunkLast(call.ids, call.size, k)
             /\ call.out[k].pageMin = IF first = 0 THEN 0 ELSE first - 1

\* C11 as stated: _idPages on an ascending list of n unique ids returns
\* ceil(n / size) pages, one per chunk, with pageMax the chunk's last id and
\* pageMin its first id - 1 (the id itself when 0), and both bounds of
\* successive pages strictly increase without overlap.
C11_IdPagesStrictBounds ==
  (call.fn = "_idPages" /\ call.done) =>
    /\ IdPagesAreChunks
    /\ \A k \in 1..(Len(call.out) - 1) :
         /\ call.out[k].pageMin < call.out[k + 1].pageMin
         /\ call.out[k].pageMax < call.out[k + 1].pageMax
         /\ call.out[k].pageMax <= call.out[k + 1].pageMin

\* C11 as amended: the pages are the chunks as above; pageMax strictly
\* increases and no page begins below the previous page's pageMax; pageMin
\* strictly increases except after a first chunk that holds the id 0 alone,
\* whose page (0, 0] shares its pageMin with the next page.
C11_IdPagesChunks ==
  (call.fn = "_idPages" /\ call.done) =>
    /\ IdPagesAreChunks
    /\ \A k \in 1..(Len(call.out) - 1) :
         /\ call.out[k].pageMax < call.out[k + 1].pageMax
         /\ call.out[k].pageMax <= call.out[k + 1].pageMin
         /\ \/ call.out[k].pageMin < call.out[k + 1].pageMin
            \/ /\ k = 1 /\ call.size = 1 /\ call.ids[1] = 0
               /\ call.out[k].pageMin = call.out[k + 1].pageMin

C11_Witness ==
  /\ call.fn = "_idPages" /\ call.done
  /\ call.ids = [i \in 1..10 |-> i] /\ call.size = 4
  /\ Len(call.out) = 3
  /\ call.out[1].pageMin = 0 /\ call.out[1].pageMax = 4
  /\ call.out[3].pageMin = 8 /\ call.out[3].pageMax = 10

\* C12: the id pages cover every feature: each id of the list satisfies
\* pageMin < id <= pageMax of exactly one returned page.
C12_IdPagesCoverEveryId ==
  (call.fn = "_idPages" /\ call.done) =>
    \A j \in 1..Len(call.ids) :
      Cardinality({k \in 1..Len(call.out) :
                     call.out[k].pageMin < call.ids[j] /\ call.ids[j] <= call.out[k].pageMax}) = 1

\* C13: every page pages() builds addresses the layer the metadata, count,
\* statistics and id-listing requests address, which is this.layer: the
\* url's trailing integer segment, else options.layer, else 0.
C13_PagesAddressTheLayer ==
  \A i \in 1..Len(cbLog) : \A j \in 1..Len(cbLog[i].pages) : \A k \in Kinds :
    /\ RequestLayer(k) = ToText(layer)
    /\ cbLog[i].pages[j].layer = RequestLayer(k)

\* C14: _decode reports exactly one outcome per response and does not throw;
\* when JSON.parse fails, in any of the three branches, the outcome is the
\* error, never a page.
C14_DecodeOneOutcome ==
  call.fn = "_decode" =>
    /\ Len(call.out) = 1
    /\ ~call.threw
    /\ ParseBody(call.enc, call.body) = "throws" => call.out = <<"err">>

QueueUntouched ==
  /\ failures' = failures /\ retry' = retry /\ timers' = timers
  /\ invoked' = invoked /\ abortLog' = abortLog
\* the step hands an error to the callback of pages()
ErrorReported == cbLog' = Append(cbLog, [via |-> "error", pages |-> <<>>])

\* C16 as stated: a failure of a layerInfo, featureCount, statistics or
\* layerIds request issues no further request, reaches the caller of pages()
\* as an error and does not pass through _catchErrors.
C16_FailuresReachCaller ==
  [][\A k \in Kinds :
       failed'[k] = failed[k] + 1 =>
         /\ requested' = requested
         /\ ErrorReported
         /\ QueueUntouched]_vars

\* C16 as amended: a failed request of the metadata path is never issued
\* again and never passes through _catchErrors; a layerInfo, featureCount or
\* layerIds failure issues no request and hands the error to the caller in
\* the same step, a statistics failure hands nothing to the caller and
\* issues one layerIds request instead.
C16_FailuresNotRetried ==
  [][\A k \in Kinds :
       failed'[k] = failed[k] + 1 =>
         /\ requested'[k] = requested[k]
         /\ QueueUntouched
         /\ k # "statistics" => (requested' = requested /\ ErrorReported)
         /\ k = "statistics" =>
              /\ cbLog' = cbLog
              /\ requested' = [requested EXCEPT !["layerIds"] = @ + 1]]_vars

C16_Witness ==
  /\ failed["statistics"] = 1 /\ requested["statistics"] = 1
  /\ failed["layerIds"] = 1 /\ requested["layerIds"] = 1
  /\ cbLog = <<[via |-> "error", pages |-> <<>>]>>
  /\ ~crashed

\* C17: when the count request succeeds with a count below 1, pages() calls
\* back with an error in that step, records no count and issues no request
\* that would build pages; the layer of a server without currentVersion is
\* never asked for its count and its metadata carries none.
C17_ZeroCountFails ==
  /\ [](meta.set /\ ~meta.currentVersion =>
          /\ requested["featureCount"] = 0
          /\ meta.count = Undefined /\ counted = Undefined)
  /\ [][(counted' # counted /\ counted'.v < 1) =>
          /\ meta.currentVersion
          /\ ErrorReported
          /\ meta' = meta
          /\ requested' = requested]_vars

C17_Witness ==
  /\ counted = Num(0)
  /\ meta.set /\ meta.currentVersion /\ meta.count = Undefined
  /\ requested["featureCount"] = 1
  /\ cbLog = <<[via |-> "error", pages |-> <<>>]>>

\* C18: under fair scheduling of network events and retry timers, every task
\* pushed to the pageQueue eventually has its callback called with the page
\* or sees the paging aborted.
C18_EveryTaskSettles ==
  \A t \in Tasks :
    (pushed >= t) ~> (outcome[t] = "page" \/ abortLog # <<>>)

\* no request made through request() is open
Settled == \A k \in Kinds : popen[k] + plate[k] = 0

\* C19: pages() calls its callback exactly once, whatever the order of the
\* timeout, 'error' and 'end' events of its requests: never twice, and once
\* when all its requests are over (a handler that threw aside).
C19_CallbackExactlyOnce ==
  /\ Len(cbLog) <= 1
  /\ (pcalled /\ Settled /\ ~crashed) => Len(cbLog) = 1

\* C20: every page of _rangePages, for integers min <= max and size >= 1, is
\* a non-empty interval of at most size ids.
C20_RangePagesWithinSize ==
  (call.fn = "_rangePages" /\ call.done) =>
    \A i \in 1..Len(call.out) :
      /\ call.out[i].pageMin.v <= call.out[i].pageMax.v
      /\ call.out[i].pageMax.v - call.out[i].pageMin.v + 1 <= call.size

====
